---------------------------- MODULE Spec2Model ----------------------------
(***************************************************************************)
(* MS-CHAPv2 demo server: the protocol engine (server/mschap.py) and the   *)
(* request handlers with their session manager (server/server.py) over the *)
(* credential store (server/db.py).                                        *)
(*                                                                         *)
(* Byte strings are sequences of integers 0..255, text strings sequences   *)
(* of code points.  A Python call is modelled by its outcome: a record     *)
(* [exc, val, work] where exc is "none" or the exception's class, val the  *)
(* returned value and work the primitive operations performed, in order,   *)
(* before the call returned or raised.                                     *)
(***************************************************************************)
EXTENDS Integers, Sequences, FiniteSets, TLC

(***************************************************************************)
(* Python values and outcomes                                              *)
(***************************************************************************)

Return(v, w) == [exc |-> "none", val |-> v, work |-> w]

Raise(e, w) == [exc |-> e, val |-> <<>>, work |-> w]

\* Python slice s[a:b] for 0 <= a <= b, clipped to the sequence (0-based, half open)
Slice(s, a, b) ==
    LET lo == IF a > Len(s) THEN Len(s) ELSE a
        hi == IF b > Len(s) THEN Len(s) ELSE b
    IN  IF hi <= lo THEN <<>> ELSE SubSeq(s, lo + 1, hi)

Zeros(n) == [i \in 1..n |-> 0]

Pow2(k) == 2 ^ k

\* bit k (0 = least significant) of the integer b
BitAt(b, k) == (b \div Pow2(k)) % 2

\* str.encode("utf-16le") for text in the basic plane without surrogates:
\* two bytes per character, low byte first
RECURSIVE encode_utf16le(_)
encode_utf16le(text) ==
    IF text = <<>> THEN <<>>
    ELSE <<Head(text) % 256, Head(text) \div 256>> \o encode_utf16le(Tail(text))

\* str.encode("ascii"): one byte per character, UnicodeEncodeError above 127
encode_ascii(text) ==
    IF \E i \in 1..Len(text) : text[i] > 127
    THEN Raise("UnicodeEncodeError", <<>>)
    ELSE Return(text, <<>>)

(***************************************************************************)
(* Library primitives.  hashlib's MD5 and SHA-1 and the DES block cipher   *)
(* are stood in for by small deterministic functions with the primitives'  *)
(* interface: a digest of fixed size (16 and 20 bytes) that depends on     *)
(* every input byte and on their order, and a keyed bijection on 8-byte    *)
(* blocks that ignores the key bytes' parity bits.  Nothing below relies   *)
(* on collision resistance.                                                *)
(***************************************************************************)

RECURSIVE Absorb(_, _, _)
Absorb(h, data, i) ==
    IF i > Len(data) THEN h
    ELSE Absorb((h * 31 + data[i] + 1) % 65521, data, i + 1)

Squeeze(h, n) == [i \in 1..n |-> ((h + 1) * (2 * i + 1) + (h \div 256) * i) % 256]

hashlib_md5(data) == Squeeze(Absorb(1, data, 1), 16)

hashlib_sha1(data) == Squeeze(Absorb(7, data, 1), 20)

KeyRot(key8) ==
    ((key8[1] \div 2) + (key8[2] \div 2) + (key8[3] \div 2) + (key8[4] \div 2)
     + (key8[5] \div 2) + (key8[6] \div 2) + (key8[7] \div 2) + (key8[8] \div 2)) % 8

DES_encrypt_block(block8, key8) ==
    LET rot == KeyRot(key8)
        Out(i) == (block8[((i + rot) % 8) + 1] + 3 * (key8[i] \div 2) + i) % 256
    IN  <<Out(1), Out(2), Out(3), Out(4), Out(5), Out(6), Out(7), Out(8)>>

(***************************************************************************)
(* server/mschap.py: class MSCHAPv2                                        *)
(***************************************************************************)

nt_password_hash(password) == hashlib_md5(encode_utf16le(password))

challenge_hash(peer_challenge, auth_challenge, username) ==
    IF Len(peer_challenge) # 16 \/ Len(auth_challenge) # 16
    THEN Raise("ValueError", <<>>)
    ELSE LET name == encode_ascii(username)
         IN  IF name.exc # "none"
             THEN Raise(name.exc, <<"sha1.update", "sha1.update">>)
             ELSE Return(
                    Slice(hashlib_sha1(peer_challenge \o auth_challenge \o name.val), 0, 8),
                    <<"sha1.update", "sha1.update", "sha1.update", "sha1.digest">>)

\* mutant: the parity bit makes the number of set bits even
apply_des_parity_to_7bits_even(b7) ==
    LET v == b7 % 128
        ones == BitAt(v, 0) + BitAt(v, 1) + BitAt(v, 2) + BitAt(v, 3)
                + BitAt(v, 4) + BitAt(v, 5) + BitAt(v, 6)
    IN  (v * 2 + (ones % 2)) % 256

apply_des_parity_to_7bits(b7) ==
    LET v == b7 % 128
        ones == BitAt(v, 0) + BitAt(v, 1) + BitAt(v, 2) + BitAt(v, 3)
                + BitAt(v, 4) + BitAt(v, 5) + BitAt(v, 6)
        parity_bit == IF ones % 2 = 0 THEN 1 ELSE 0
    IN  (v * 2 + parity_bit) % 256

\* (key56 >> 7 * (7 - i)) & 0x7F for the 56-bit big-endian integer of seven,
\* i.e. its bits 7i .. 7i+6 counted from the most significant one.  key56 does
\* not fit the model checker's integers: the seven bits are taken from the two
\* bytes they lie in (the second one absent, hence 0, for the last group)
KeySegment(seven, i) ==
    LET j == (7 * i) \div 8
        hi == seven[j + 1]
        lo == IF j + 2 <= Len(seven) THEN seven[j + 2] ELSE 0
    IN  ((hi * 256 + lo) \div Pow2(9 - ((7 * i) % 8))) % 128

make_des_key_from_7_bytes(seven) ==
    IF Len(seven) # 7
    THEN Raise("ValueError", <<>>)
    ELSE LET out(i) == apply_des_parity_to_7bits(KeySegment(seven, i))
         IN  Return(<<out(0), out(1), out(2), out(3), out(4), out(5), out(6), out(7)>>,
                    <<"key_expansion">>)

\* the loop of challenge_response from round i on: resp and work so far
RECURSIVE ResponseLoop(_, _, _, _, _)
ResponseLoop(challenge8, z, i, resp, work) ==
    IF i = 3 THEN Return(resp, work)
    ELSE LET seven == Slice(z, i * 7, (i + 1) * 7)
             key8 == make_des_key_from_7_bytes(seven)
         IN  IF key8.exc # "none"
             THEN Raise(key8.exc, work \o key8.work)
             ELSE ResponseLoop(challenge8, z, i + 1,
                               resp \o DES_encrypt_block(challenge8, key8.val),
                               work \o key8.work \o <<"des.encrypt_block">>)

\* mutant: the digest's length is not checked
challenge_response_unguarded(challenge8, nt_hash) ==
    IF Len(challenge8) # 8 THEN Raise("ValueError", <<>>)
    ELSE ResponseLoop(challenge8, nt_hash \o Zeros(5), 0, <<>>, <<>>)

\* mutant: each block after the first encrypts the block before it
challenge_response_chained(challenge8, nt_hash) ==
    IF Len(challenge8) # 8 THEN Raise("ValueError", <<>>)
    ELSE IF Len(nt_hash) # 16 THEN Raise("ValueError", <<>>)
    ELSE LET z == nt_hash \o Zeros(5)
             key8(i) == make_des_key_from_7_bytes(Slice(z, i * 7, (i + 1) * 7)).val
             block0 == DES_encrypt_block(challenge8, key8(0))
             block1 == DES_encrypt_block(block0, key8(1))
             block2 == DES_encrypt_block(block1, key8(2))
         IN  Return(block0 \o block1 \o block2,
                    <<"key_expansion", "des.encrypt_block", "key_expansion",
                      "des.encrypt_block", "key_expansion", "des.encrypt_block">>)

challenge_response(challenge8, nt_hash) ==
    IF Len(challenge8) # 8 THEN Raise("ValueError", <<>>)
    ELSE IF Len(nt_hash) # 16 THEN Raise("ValueError", <<>>)
    ELSE ResponseLoop(challenge8, nt_hash \o Zeros(5), 0, <<>>, <<>>)

generate_nt_response(auth_challenge, peer_challenge, username, password) ==
    LET nt_hash == nt_password_hash(password)
        chall8 == challenge_hash(peer_challenge, auth_challenge, username)
    IN  IF chall8.exc # "none"
        THEN Raise(chall8.exc, <<"md5">> \o chall8.work)
        ELSE LET resp == challenge_response(chall8.val, nt_hash)
             IN  [resp EXCEPT !.work = <<"md5">> \o chall8.work \o resp.work]

\* mutant: the two challenges are hashed in the other order
verify_nt_response_swapped(auth_challenge, peer_challenge, username, stored_nt_hash, received_nt_response) ==
    IF Len(received_nt_response) # 24 THEN Return(FALSE, <<>>)
    ELSE LET chall8 == challenge_hash(auth_challenge, peer_challenge, username)
         IN  IF chall8.exc # "none" THEN chall8
             ELSE LET expected == challenge_response(chall8.val, stored_nt_hash)
                  IN  IF expected.exc # "none"
                      THEN Raise(expected.exc, chall8.work \o expected.work)
                      ELSE Return(expected.val = received_nt_response,
                                  chall8.work \o expected.work)

\* mutant: only the first of the three blocks is compared
verify_nt_response_first_block(auth_challenge, peer_challenge, username, stored_nt_hash, received_nt_response) ==
    IF Len(received_nt_response) # 24 THEN Return(FALSE, <<>>)
    ELSE LET chall8 == challenge_hash(peer_challenge, auth_challenge, username)
         IN  IF chall8.exc # "none" THEN chall8
             ELSE LET expected == challenge_response(chall8.val, stored_nt_hash)
                  IN  IF expected.exc # "none"
                      THEN Raise(expected.exc, chall8.work \o expected.work)
                      ELSE Return(Slice(expected.val, 0, 8) = Slice(received_nt_response, 0, 8),
                                  chall8.work \o expected.work)

\* mutant: the response's length is not checked first
verify_nt_response_unguarded(auth_challenge, peer_challenge, username, stored_nt_hash, received_nt_response) ==
    LET chall8 == challenge_hash(peer_challenge, auth_challenge, username)
    IN  IF chall8.exc # "none" THEN chall8
        ELSE LET expected == challenge_response(chall8.val, stored_nt_hash)
             IN  IF expected.exc # "none"
                 THEN Raise(expected.exc, chall8.work \o expected.work)
                 ELSE Return(expected.val = received_nt_response,
                             chall8.work \o expected.work)

verify_nt_response(auth_challenge, peer_challenge, username, stored_nt_hash, received_nt_response) ==
    IF Len(received_nt_response) # 24 THEN Return(FALSE, <<>>)
    ELSE LET chall8 == challenge_hash(peer_challenge, auth_challenge, username)
         IN  IF chall8.exc # "none" THEN chall8
             ELSE LET expected == challenge_response(chall8.val, stored_nt_hash)
                  IN  IF expected.exc # "none"
                      THEN Raise(expected.exc, chall8.work \o expected.work)
                      ELSE Return(expected.val = received_nt_response,
                                  chall8.work \o expected.work)

(***************************************************************************)
(* State                                                                   *)
(***************************************************************************)

VARIABLES
    sessions,     \* session_manager._sessions: session id -> AuthSession
    users,        \* the users table: username -> nt_hash
    nIssued,      \* how many session ids uuid4 has produced (they are 1..nIssued)
    thr,          \* per worker thread: the handler it runs, its position, its locals
    eng           \* a component called on its own (the protocol engine, the
                  \* session manager): the call and its outcome

srvVars == <<sessions, users, nIssued, thr>>

vars == <<sessions, users, nIssued, thr, eng>>

(***************************************************************************)
(* The protocol engine on its own: MSCHAPv2's functions are static and     *)
(* pure, so a call is one step from the idle state to a state holding the  *)
(* arguments and the outcome.                                              *)
(***************************************************************************)

Text_alice == <<97, 108, 105, 99, 101>>

Text_User == <<85, 115, 101, 114>>

Text_e_acute == <<233>>

Text_Secret123 == <<83, 101, 99, 114, 101, 116, 49, 50, 51>>

Text_Passw0rd == <<80, 64, 115, 115, 119, 48, 114, 100>>

Text_cyrillic == <<1087, 1072, 1088>>

Counting(n) == [i \in 1..n |-> i]

EngChallenges == {Zeros(16), Counting(16), [i \in 1..16 |-> 255 - i], Zeros(15), Counting(17), <<>>}

EngUsernames == {Text_alice, Text_User, Text_e_acute, <<>>}

EngPasswords == {Text_Secret123, Text_Passw0rd, Text_cyrillic, <<>>}

EngDigests == {nt_password_hash(p) : p \in EngPasswords} \cup {Zeros(16), Zeros(15), Counting(17), <<>>}

EngResponses == {Zeros(24), Counting(24), Zeros(23), Counting(25), <<>>}

EngBlocks == {Zeros(8), Counting(8), Zeros(7), Counting(9), <<>>}

EngSevens == {Zeros(7), Counting(7), [i \in 1..7 |-> 255], <<1, 35, 69, 103, 137, 171, 205>>, <<128, 0, 0, 0, 0, 0, 1>>, Zeros(6), Counting(8), <<>>}

\* the 56 inputs of seven bytes with one bit set, bit n counted from the most
\* significant bit of the first byte
EngSingleBitSevens ==
    {[j \in 1..7 |-> IF j = (n \div 8) + 1 THEN Pow2(7 - (n % 8)) ELSE 0] : n \in 0..55}

EngIdle == [op |-> "idle"]

\* response with bit k (0..191) flipped: bit k % 8 of byte k \div 8
FlipBit(resp, k) ==
    LET j == (k \div 8) + 1
        b == resp[j]
    IN  [resp EXCEPT ![j] = IF BitAt(b, k % 8) = 1 THEN b - Pow2(k % 8) ELSE b + Pow2(k % 8)]

EngChallengeHash(peer, auth, user) ==
    /\ eng.op = "idle"
    /\ eng' = [op |-> "challenge_hash", peer |-> peer, auth |-> auth, user |-> user,
               out |-> challenge_hash(peer, auth, user)]
    /\ UNCHANGED srvVars

EngKeyExpansion(seven) ==
    /\ eng.op = "idle"
    /\ eng' = [op |-> "make_des_key_from_7_bytes", seven |-> seven,
               out |-> make_des_key_from_7_bytes(seven)]
    /\ UNCHANGED srvVars

EngChallengeResponse(challenge8, nt_hash) ==
    /\ eng.op = "idle"
    /\ eng' = [op |-> "challenge_response", challenge8 |-> challenge8, nt_hash |-> nt_hash,
               out |-> challenge_response(challenge8, nt_hash)]
    /\ UNCHANGED srvVars

\* the proving side computes its response from the password
EngGenerate(auth, peer, user, password) ==
    /\ eng.op = "idle"
    /\ eng' = [op |-> "generate_nt_response", auth |-> auth, peer |-> peer, user |-> user,
               password |-> password,
               out |-> generate_nt_response(auth, peer, user, password)]
    /\ UNCHANGED srvVars

\* the verifying side checks the response just generated against the digest of
\* the same password (mschap.py's self-check)
EngVerifyGenerated ==
    /\ eng.op = "generate_nt_response"
    /\ eng.out.exc = "none"
    /\ LET stored == nt_password_hash(eng.password)
       IN  eng' = [op |-> "verify_nt_response", origin |-> "generated",
                   auth |-> eng.auth, peer |-> eng.peer, user |-> eng.user,
                   stored |-> stored, received |-> eng.out.val,
                   out |-> verify_nt_response(eng.auth, eng.peer, eng.user, stored, eng.out.val)]
    /\ UNCHANGED srvVars

\* an accepted response comes back with one bit flipped, everything else the same
EngVerifyTampered(k) ==
    /\ eng.op = "verify_nt_response"
    /\ eng.origin # "tampered"
    /\ eng.out.exc = "none"
    /\ eng.out.val
    /\ LET received == FlipBit(eng.received, k)
       IN  eng' = [eng EXCEPT !.origin = "tampered", !.received = received,
                   !.out = verify_nt_response(eng.auth, eng.peer, eng.user, eng.stored, received)]
    /\ UNCHANGED srvVars

\* verify_nt_response on arbitrary arguments
EngVerify(auth, peer, user, stored, received) ==
    /\ eng.op = "idle"
    /\ eng' = [op |-> "verify_nt_response", origin |-> "arbitrary",
               auth |-> auth, peer |-> peer, user |-> user,
               stored |-> stored, received |-> received,
               out |-> verify_nt_response(auth, peer, user, stored, received)]
    /\ UNCHANGED srvVars

EngDone ==
    /\ eng.op # "idle"
    /\ eng' = EngIdle
    /\ UNCHANGED srvVars

EngNext ==
    \/ \E peer \in EngChallenges, auth \in EngChallenges, user \in EngUsernames :
          EngChallengeHash(peer, auth, user)
    \/ \E seven \in EngSevens \cup EngSingleBitSevens : EngKeyExpansion(seven)
    \/ \E challenge8 \in EngBlocks, nt_hash \in EngDigests :
          EngChallengeResponse(challenge8, nt_hash)
    \/ \E auth \in EngChallenges, peer \in EngChallenges, user \in EngUsernames,
          password \in EngPasswords : EngGenerate(auth, peer, user, password)
    \/ EngVerifyGenerated
    \/ \E k \in 0..191 : EngVerifyTampered(k)
    \/ \E auth \in EngChallenges, peer \in EngChallenges, user \in EngUsernames,
          stored \in EngDigests, received \in EngResponses :
          EngVerify(auth, peer, user, stored, received)
    \/ EngDone

(***************************************************************************)
(* base64 (Python's base64.b64encode / b64decode, not validating):         *)
(* text is a sequence of character codes                                   *)
(***************************************************************************)

B64Char(v) ==
    IF v < 26 THEN 65 + v
    ELSE IF v < 52 THEN 97 + (v - 26)
    ELSE IF v < 62 THEN 48 + (v - 52)
    ELSE IF v = 62 THEN 43 ELSE 47

\* the 6-bit value of a character of the alphabet, 64 for any other character
B64Value(c) ==
    IF c >= 65 /\ c <= 90 THEN c - 65
    ELSE IF c >= 97 /\ c <= 122 THEN c - 97 + 26
    ELSE IF c >= 48 /\ c <= 57 THEN c - 48 + 52
    ELSE IF c = 43 THEN 62
    ELSE IF c = 47 THEN 63 ELSE 64

RECURSIVE b64encode(_)
b64encode(bytes) ==
    IF bytes = <<>> THEN <<>>
    ELSE IF Len(bytes) = 1 THEN
        <<B64Char(bytes[1] \div 4), B64Char((bytes[1] % 4) * 16), 61, 61>>
    ELSE IF Len(bytes) = 2 THEN
        <<B64Char(bytes[1] \div 4), B64Char((bytes[1] % 4) * 16 + bytes[2] \div 16),
          B64Char((bytes[2] % 16) * 4), 61>>
    ELSE
        <<B64Char(bytes[1] \div 4), B64Char((bytes[1] % 4) * 16 + bytes[2] \div 16),
          B64Char((bytes[2] % 16) * 4 + bytes[3] \div 64), B64Char(bytes[3] % 64)>>
        \o b64encode(Slice(bytes, 3, Len(bytes)))

\* binascii.a2b_base64 from character i on: quad_pos characters of the current
\* group read, leftchar the bits not yet written, pads the '=' seen in a row
RECURSIVE B64DecodeLoop(_, _, _, _, _, _)
B64DecodeLoop(text, i, quad_pos, leftchar, pads, out) ==
    IF i > Len(text) THEN
        IF quad_pos # 0 THEN Raise("binascii.Error", <<>>) ELSE Return(out, <<>>)
    ELSE IF text[i] = 61 THEN
        IF quad_pos >= 2 /\ quad_pos + pads + 1 >= 4
        THEN Return(out, <<>>)
        ELSE B64DecodeLoop(text, i + 1, quad_pos, leftchar, pads + 1, out)
    ELSE LET v == B64Value(text[i])
         IN  IF v = 64 THEN B64DecodeLoop(text, i + 1, quad_pos, leftchar, pads, out)
             ELSE IF quad_pos = 0 THEN B64DecodeLoop(text, i + 1, 1, v, 0, out)
             ELSE IF quad_pos = 1 THEN
                 B64DecodeLoop(text, i + 1, 2, v % 16, 0, Append(out, leftchar * 4 + v \div 16))
             ELSE IF quad_pos = 2 THEN
                 B64DecodeLoop(text, i + 1, 3, v % 4, 0, Append(out, leftchar * 16 + v \div 4))
             ELSE B64DecodeLoop(text, i + 1, 0, 0, 0, Append(out, leftchar * 64 + v))

b64decode(text) == B64DecodeLoop(text, 1, 0, 0, 0, <<>>)

(***************************************************************************)
(* server/db.py: the users table as a mapping username -> nt_hash          *)
(***************************************************************************)

\* Optional[User]: <<>> for None, <<user>> otherwise
get_user_by_username(table, username) ==
    IF username \in DOMAIN table
    THEN <<[username |-> username, nt_hash |-> table[username]]>>
    ELSE <<>>

\* the username column is unique: a second insert of a name fails
create_user(table, username, nt_hash) ==
    IF username \in DOMAIN table
    THEN Raise("IntegrityError", <<>>)
    ELSE Return([u \in DOMAIN table \cup {username} |->
                    IF u = username THEN nt_hash ELSE table[u]], <<>>)

(***************************************************************************)
(* server/server.py: class AuthSessionManager, on the mapping d            *)
(***************************************************************************)

MaxSessions == 2

\* mutant: an identifier may come out a second time
NewSessionIds_repeating(issued) == 1..(issued + 1)

\* mutant: every call returns the same identifier
NewSessionIds_constant(issued) == {1}

\* uuid.uuid4(): an identifier never produced before
NewSessionIds(issued) == {issued + 1}

create_session(d, session_id, username, auth_challenge) ==
    [k \in DOMAIN d \cup {session_id} |->
        IF k = session_id
        THEN [username |-> username, auth_challenge |-> auth_challenge]
        ELSE d[k]]

get_session(d, session_id) ==
    IF session_id \in DOMAIN d
    THEN Return(d[session_id], <<>>)
    ELSE Raise("KeyError", <<>>)

\* mutant: a missing session reads as a fixed challenge instead of raising
get_auth_challenge_default(d, session_id) ==
    IF session_id \in DOMAIN d
    THEN Return(d[session_id].auth_challenge, <<>>)
    ELSE Return(Counting(16), <<>>)

get_auth_challenge(d, session_id) ==
    LET sess == get_session(d, session_id)
    IN  IF sess.exc # "none" THEN sess ELSE Return(sess.val.auth_challenge, <<>>)

get_username(d, session_id) ==
    LET sess == get_session(d, session_id)
    IN  IF sess.exc # "none" THEN sess ELSE Return(sess.val.username, <<>>)

\* mutant: the whole map is cleared
delete_session_clearing(d, session_id) == << >>

delete_session(d, session_id) == [k \in DOMAIN d \ {session_id} |-> d[k]]

(***************************************************************************)
(* server/server.py: the endpoints.  They are plain functions, which the   *)
(* framework runs on a pool of worker threads: requests interleave between *)
(* two accesses to the session map or the table.  A request's fields are   *)
(* values fixed by the client and independent of the server's state; each  *)
(* is drawn where the handler first reads it.                              *)
(***************************************************************************)

Threads == {1, 2}

SrvUsernames == {Text_alice, Text_e_acute}

SrvPasswords == {Text_Secret123}

\* what os.urandom(16) may return
SrvAuthChallenges == {Counting(16), [i \in 1..16 |-> 16 * i - 1]}

SrvPeer == [i \in 1..16 |-> 100 + i]

\* the peer_challenge fields clients send: well formed, one byte short, not base64
SrvPeerTexts == {b64encode(SrvPeer), b64encode(Slice(SrvPeer, 0, 15)), <<65>>}

\* the nt_response fields clients send: every response a client that knows a
\* password can compute, a wrong one, one byte short, not base64
SrvResponseTexts ==
    {b64encode(generate_nt_response(ac, SrvPeer, u, pw).val) :
        ac \in SrvAuthChallenges, u \in {Text_alice}, pw \in SrvPasswords}
    \cup {b64encode(Zeros(24)), b64encode(Zeros(23)), <<65>>}

\* base64.b64decode of each field a client sends, worked out once
B64Decoded == [text \in SrvPeerTexts \cup SrvResponseTexts |-> b64decode(text)]

\* the byte strings of n bytes the fields decode to, and the digests the table can hold
SrvDecodedBytes(n) ==
    {B64Decoded[text].val :
        text \in {x \in DOMAIN B64Decoded :
                    B64Decoded[x].exc = "none" /\ Len(B64Decoded[x].val) = n}}

SrvDigests == {nt_password_hash(password) : password \in SrvPasswords}

\* the argument lists of verify_nt_response a request that passed the length
\* checks can lead to
VerifyArgs ==
    {<<ac, peer, u, h, resp>> :
        ac \in SrvAuthChallenges, peer \in SrvDecodedBytes(16), u \in SrvUsernames,
        h \in SrvDigests, resp \in SrvDecodedBytes(24)}

\* verify_nt_response on each of them, worked out once
Verified == [a \in VerifyArgs |-> verify_nt_response(a[1], a[2], a[3], a[4], a[5])]

NoResult == [status |-> 0, detail |-> "", success |-> FALSE]

HTTPException(status, detail) == [status |-> status, detail |-> detail, success |-> FALSE]

\* an exception no handler catches: the framework answers 500
InternalServerError == [status |-> 500, detail |-> "Internal Server Error", success |-> FALSE]

Ok200(success) == [status |-> 200, detail |-> "", success |-> success]

ThrIdle ==
    [pc |-> "idle", handler |-> "none", sid |-> 0, username |-> <<>>,
     sess_username |-> <<>>, auth_challenge |-> <<>>, ok |-> FALSE, result |-> NoResult]

\* the session ids a client can present: those a challenge response has
\* delivered, and one that was never issued
ClientSessionIds ==
    {0} \cup {i \in 1..nIssued :
                ~ \E t \in Threads : thr[t].pc = "challenge_get" /\ thr[t].sid = i}

\* the handler returns or raises: its locals are gone, its response is held
\* until it is sent
Finish(t, handler, sid, result) ==
    thr' = [thr EXCEPT ![t] = [ThrIdle EXCEPT !.pc = "done", !.handler = handler,
                                !.sid = sid, !.result = result]]

(* ---- POST /auth/register ---- *)

register_check(t, username) ==
    /\ thr[t].pc = "idle"
    /\ IF get_user_by_username(users, username) # <<>>
       THEN Finish(t, "register", 0, HTTPException(400, "User already exists"))
       ELSE thr' = [thr EXCEPT ![t] = [ThrIdle EXCEPT !.pc = "register_create",
                                        !.handler = "register", !.username = username]]
    /\ UNCHANGED <<sessions, users, nIssued, eng>>

register_create(t, password) ==
    /\ thr[t].pc = "register_create"
    /\ LET created == create_user(users, thr[t].username, nt_password_hash(password))
       IN  IF created.exc # "none"
           THEN /\ Finish(t, "register", 0, HTTPException(500, "DB error"))
                /\ UNCHANGED users
           ELSE /\ users' = created.val
                /\ Finish(t, "register", 0, Ok200(TRUE))
    /\ UNCHANGED <<sessions, nIssued, eng>>

(* ---- POST /auth/challenge ---- *)

\* mutant: the user is not looked up
challenge_lookup_unchecked(t, username) ==
    /\ thr[t].pc = "idle"
    /\ thr' = [thr EXCEPT ![t] = [ThrIdle EXCEPT !.pc = "challenge_create",
                                    !.handler = "auth_challenge", !.username = username]]
    /\ UNCHANGED <<sessions, users, nIssued, eng>>

challenge_lookup(t, username) ==
    /\ thr[t].pc = "idle"
    /\ IF get_user_by_username(users, username) = <<>>
       THEN Finish(t, "auth_challenge", 0, HTTPException(404, "User not found"))
       ELSE thr' = [thr EXCEPT ![t] = [ThrIdle EXCEPT !.pc = "challenge_create",
                                        !.handler = "auth_challenge", !.username = username]]
    /\ UNCHANGED <<sessions, users, nIssued, eng>>

challenge_create(t, auth_challenge, session_id) ==
    /\ thr[t].pc = "challenge_create"
    /\ nIssued < MaxSessions
    /\ sessions' = create_session(sessions, session_id, thr[t].username, auth_challenge)
    /\ nIssued' = IF session_id > nIssued THEN session_id ELSE nIssued
    /\ thr' = [thr EXCEPT ![t].pc = "challenge_get", ![t].sid = session_id]
    /\ UNCHANGED <<users, eng>>

challenge_get(t) ==
    /\ thr[t].pc = "challenge_get"
    /\ LET ac == get_auth_challenge(sessions, thr[t].sid)
       IN  IF ac.exc # "none"
           THEN Finish(t, "auth_challenge", thr[t].sid, InternalServerError)
           ELSE Finish(t, "auth_challenge", thr[t].sid, Ok200(TRUE))
    /\ UNCHANGED <<sessions, users, nIssued, eng>>

(* ---- POST /auth/response ---- *)

response_get_username(t, session_id) ==
    /\ thr[t].pc = "idle"
    /\ LET name == get_username(sessions, session_id)
       IN  IF name.exc # "none"
           THEN Finish(t, "auth_response", session_id, HTTPException(400, "Invalid session_id"))
           ELSE thr' = [thr EXCEPT ![t] = [ThrIdle EXCEPT !.pc = "response_get_challenge",
                                            !.handler = "auth_response", !.sid = session_id,
                                            !.sess_username = name.val]]
    /\ UNCHANGED <<sessions, users, nIssued, eng>>

response_get_challenge(t) ==
    /\ thr[t].pc = "response_get_challenge"
    /\ LET ac == get_auth_challenge(sessions, thr[t].sid)
       IN  IF ac.exc # "none"
           THEN Finish(t, "auth_response", thr[t].sid, HTTPException(400, "Invalid session_id"))
           ELSE thr' = [thr EXCEPT ![t].pc = "response_check", ![t].auth_challenge = ac.val]
    /\ UNCHANGED <<sessions, users, nIssued, eng>>

\* mutant: the identity presented is not compared with the session's
ResponseChecks_any_identity(sess_username, auth_challenge, table, username, peer_challenge, nt_response) ==
    LET user == get_user_by_username(table, username)
    IN  IF peer_challenge.exc # "none" \/ nt_response.exc # "none"
        THEN [verified |-> FALSE, result |-> HTTPException(400, "Bad base64")]
        ELSE IF Len(peer_challenge.val) # 16 \/ Len(nt_response.val) # 24
        THEN [verified |-> FALSE, result |-> HTTPException(400, "Wrong lengths")]
        ELSE IF user = <<>>
        THEN [verified |-> FALSE, result |-> HTTPException(404, "User not found")]
        ELSE [verified |-> TRUE,
              out |-> Verified[<<auth_challenge, peer_challenge.val, username,
                                 user[1].nt_hash, nt_response.val>>]]

\* lines 183-215 of the handler, from the identity check to verify_nt_response:
\* the rejection raised, or the outcome of the verification; peer_challenge and
\* nt_response are the outcomes of decoding the request's two fields
ResponseChecks(sess_username, auth_challenge, table, username, peer_challenge, nt_response) ==
    IF sess_username # username
    THEN [verified |-> FALSE, result |-> HTTPException(400, "Username mismatch")]
    ELSE LET user == get_user_by_username(table, username)
         IN  IF peer_challenge.exc # "none" \/ nt_response.exc # "none"
             THEN [verified |-> FALSE, result |-> HTTPException(400, "Bad base64")]
             ELSE IF Len(peer_challenge.val) # 16 \/ Len(nt_response.val) # 24
             THEN [verified |-> FALSE, result |-> HTTPException(400, "Wrong lengths")]
             ELSE IF user = <<>>
             THEN [verified |-> FALSE, result |-> HTTPException(404, "User not found")]
             ELSE [verified |-> TRUE,
                   out |-> Verified[<<auth_challenge, peer_challenge.val, username,
                                      user[1].nt_hash, nt_response.val>>]]

response_check(t, username, peer_text, response_text) ==
    /\ thr[t].pc = "response_check"
    /\ LET c == ResponseChecks(thr[t].sess_username, thr[t].auth_challenge, users,
                               username, B64Decoded[peer_text], B64Decoded[response_text])
       IN  IF ~c.verified
           THEN Finish(t, "auth_response", thr[t].sid, c.result)
           ELSE IF c.out.exc # "none"
           THEN Finish(t, "auth_response", thr[t].sid, InternalServerError)
           ELSE thr' = [thr EXCEPT ![t].pc = "response_delete",
                                   ![t].username = username, ![t].ok = c.out.val]
    /\ UNCHANGED <<sessions, users, nIssued, eng>>

\* mutant: the handler also removes the user's row
response_delete_removing_user(t) ==
    /\ thr[t].pc = "response_delete"
    /\ sessions' = delete_session(sessions, thr[t].sid)
    /\ users' = [u \in DOMAIN users \ {thr[t].username} |-> users[u]]
    /\ Finish(t, "auth_response", thr[t].sid, Ok200(thr[t].ok))
    /\ UNCHANGED <<nIssued, eng>>

response_delete(t) ==
    /\ thr[t].pc = "response_delete"
    /\ sessions' = delete_session(sessions, thr[t].sid)
    /\ Finish(t, "auth_response", thr[t].sid, Ok200(thr[t].ok))
    /\ UNCHANGED <<users, nIssued, eng>>

\* the response is sent and the worker thread takes the next request
Respond(t) ==
    /\ thr[t].pc = "done"
    /\ thr' = [thr EXCEPT ![t] = ThrIdle]
    /\ UNCHANGED <<sessions, users, nIssued, eng>>

(***************************************************************************)
(* The session manager on its own: any caller, any method, any identifier, *)
(* one call after the other.  The call record keeps the map as it was      *)
(* before the call.                                                        *)
(***************************************************************************)

\* the identifiers a caller can pass: issued ones, 0 and those not issued yet
MgrSessionIds == 0..MaxSessions

MgrCreateSession(username, auth_challenge, session_id) ==
    /\ nIssued < MaxSessions
    /\ sessions' = create_session(sessions, session_id, username, auth_challenge)
    /\ nIssued' = IF session_id > nIssued THEN session_id ELSE nIssued
    /\ eng' = [op |-> "create_session", sid |-> session_id, before |-> sessions,
               out |-> Return(session_id, <<>>)]
    /\ UNCHANGED <<users, thr>>

\* mutant: the lookup removes the entry it finds
MgrGetSession_popping(session_id) ==
    /\ sessions' = delete_session(sessions, session_id)
    /\ eng' = [op |-> "get_session", sid |-> session_id, before |-> sessions,
               out |-> get_session(sessions, session_id)]
    /\ UNCHANGED <<users, nIssued, thr>>

MgrGetSession(session_id) ==
    /\ eng' = [op |-> "get_session", sid |-> session_id, before |-> sessions,
               out |-> get_session(sessions, session_id)]
    /\ UNCHANGED <<sessions, users, nIssued, thr>>

MgrGetAuthChallenge(session_id) ==
    /\ eng' = [op |-> "get_auth_challenge", sid |-> session_id, before |-> sessions,
               out |-> get_auth_challenge(sessions, session_id)]
    /\ UNCHANGED <<sessions, users, nIssued, thr>>

MgrGetUsername(session_id) ==
    /\ eng' = [op |-> "get_username", sid |-> session_id, before |-> sessions,
               out |-> get_username(sessions, session_id)]
    /\ UNCHANGED <<sessions, users, nIssued, thr>>

\* mutant: dict.pop without a default raises KeyError for a missing key
MgrDeleteSession_strict(session_id) ==
    /\ sessions' = delete_session(sessions, session_id)
    /\ eng' = [op |-> "delete_session", sid |-> session_id, before |-> sessions,
               out |-> IF session_id \in DOMAIN sessions
                       THEN Return(<<>>, <<>>) ELSE Raise("KeyError", <<>>)]
    /\ UNCHANGED <<users, nIssued, thr>>

\* pop(session_id, None) raises nothing; the method returns None
MgrDeleteSession(session_id) ==
    /\ sessions' = delete_session(sessions, session_id)
    /\ eng' = [op |-> "delete_session", sid |-> session_id, before |-> sessions,
               out |-> Return(<<>>, <<>>)]
    /\ UNCHANGED <<users, nIssued, thr>>

MgrNext ==
    \/ \E username \in SrvUsernames, auth_challenge \in SrvAuthChallenges,
          session_id \in NewSessionIds(nIssued) :
          MgrCreateSession(username, auth_challenge, session_id)
    \/ \E session_id \in MgrSessionIds : MgrGetSession(session_id)
    \/ \E session_id \in MgrSessionIds : MgrGetAuthChallenge(session_id)
    \/ \E session_id \in MgrSessionIds : MgrGetUsername(session_id)
    \/ \E session_id \in MgrSessionIds : MgrDeleteSession(session_id)

(***************************************************************************)
(* Specifications                                                          *)
(***************************************************************************)

Init ==
    /\ sessions = << >>
    /\ users = << >>
    /\ nIssued = 0
    /\ thr = [t \in Threads |-> ThrIdle]
    /\ eng = EngIdle

Next ==
    \/ \E t \in Threads, username \in SrvUsernames : register_check(t, username)
    \/ \E t \in Threads, password \in SrvPasswords : register_create(t, password)
    \/ \E t \in Threads, username \in SrvUsernames : challenge_lookup(t, username)
    \/ \E t \in Threads, auth_challenge \in SrvAuthChallenges, session_id \in NewSessionIds(nIssued) :
          challenge_create(t, auth_challenge, session_id)
    \/ \E t \in Threads : challenge_get(t)
    \/ \E t \in Threads, session_id \in ClientSessionIds : response_get_username(t, session_id)
    \/ \E t \in Threads : response_get_challenge(t)
    \/ \E t \in Threads, username \in SrvUsernames, peer_text \in SrvPeerTexts,
          response_text \in SrvResponseTexts :
          response_check(t, username, peer_text, response_text)
    \/ \E t \in Threads : response_delete(t)
    \/ \E t \in Threads : Respond(t)

Spec == Init /\ [][Next]_vars

EngineSpec == Init /\ [][EngNext]_vars

ManagerSpec == Init /\ [][MgrNext]_vars

(***************************************************************************)
(* Claims about the request handlers, under Spec                           *)
(***************************************************************************)

\* thread t holds the response of an /auth/response request
Answered(t) == thr[t].pc = "done" /\ thr[t].handler = "auth_response"

Live(session_id) == session_id \in DOMAIN sessions

\* issued once and deleted since
Consumed(session_id) == session_id \in 1..nIssued /\ ~Live(session_id)

\* C1: when /auth/response is answered "Username mismatch" (the identity
\* presented differs from the one the session was opened for), the session
\* is no longer in the session map.
C1_MismatchConsumesSession ==
    \A t \in Threads :
        (Answered(t) /\ thr[t].result.detail = "Username mismatch") => ~Live(thr[t].sid)

\* thread t's /auth/response request has had verify_nt_response return for its session
PastVerify(t) ==
    /\ thr[t].handler = "auth_response"
    /\ \/ thr[t].pc = "response_delete"
       \/ thr[t].pc = "done" /\ thr[t].result.status = 200

\* C2: no two /auth/response requests get as far as verify_nt_response, or
\* to an answer computed from it, on the same session id.
C2_SessionVerifiedAtMostOnce ==
    \A t1, t2 \in Threads :
        (t1 # t2 /\ PastVerify(t1) /\ PastVerify(t2)) => thr[t1].sid # thr[t2].sid

\* C3: when /auth/response rejects a request on a live session of the right
\* identity because a field is not base64 or has the wrong length, the
\* session is no longer in the session map.
C3_MalformedPayloadConsumesSession ==
    \A t \in Threads :
        (Answered(t) /\ thr[t].result.detail \in {"Bad base64", "Wrong lengths"})
            => ~Live(thr[t].sid)

\* C4: when /auth/response is aborted by an exception of the verification or
\* by the user missing from the table, the session is no longer in the
\* session map.
C4_ExceptionConsumesSession ==
    \A t \in Threads :
        (Answered(t) /\ ( \/ thr[t].result = InternalServerError
                          \/ thr[t].result.detail = "User not found" ))
            => ~Live(thr[t].sid)

\* C5: a consumed session id stays consumed, and every lookup an
\* /auth/response request makes of it from then on (the first, get_username,
\* or the second, get_auth_challenge) ends the request with "Invalid
\* session_id".
C5_ConsumedStaysConsumed ==
    [][ \A i \in 1..MaxSessions :
          Consumed(i) =>
            /\ ~(i \in DOMAIN sessions')
            /\ \A t \in Threads :
                 ( /\ thr'[t] # thr[t]
                   /\ \/ thr[t].pc = "response_get_challenge" /\ thr[t].sid = i
                      \/ /\ thr[t].pc = "idle"
                         /\ thr'[t].handler = "auth_response"
                         /\ thr'[t].sid = i )
                 => /\ thr'[t].pc = "done"
                    /\ thr'[t].result = HTTPException(400, "Invalid session_id") ]_vars

\* C5 witness: a request on a consumed session id was answered "Invalid session_id"
C5_Witness ==
    \E t \in Threads :
        /\ Answered(t)
        /\ Consumed(thr[t].sid)
        /\ thr[t].result = HTTPException(400, "Invalid session_id")

\* the answer of thread t is one of the three failures of an exchange: no such
\* session, wrong identity, wrong response
ExchangeFailed(t) ==
    /\ Answered(t)
    /\ \/ thr[t].result.detail \in {"Invalid session_id", "Username mismatch"}
       \/ thr[t].result.status = 200 /\ ~thr[t].result.success

\* C6: any two failed exchanges are answered with the same status and body.
C6_FailuresIndistinguishable ==
    \A t1, t2 \in Threads :
        (ExchangeFailed(t1) /\ ExchangeFailed(t2)) => thr[t1].result = thr[t2].result

(***************************************************************************)
(* Claims about the protocol engine, under EngineSpec                      *)
(***************************************************************************)

IsAscii(text) == \A i \in 1..Len(text) : text[i] <= 127

\* C7: with 16-byte challenges and an ASCII identity generate_nt_response
\* returns 24 bytes, and verify_nt_response accepts them against the digest
\* of the same password.
C7_RoundTrip ==
    /\ ( /\ eng.op = "generate_nt_response"
         /\ Len(eng.auth) = 16 /\ Len(eng.peer) = 16 /\ IsAscii(eng.user) )
       => (eng.out.exc = "none" /\ Len(eng.out.val) = 24)
    /\ (eng.op = "verify_nt_response" /\ eng.origin = "generated")
       => (eng.out.exc = "none" /\ eng.out.val)

\* C7 witness: a generated response was verified, the two challenges differing
C7_Witness ==
    /\ eng.op = "verify_nt_response"
    /\ eng.origin = "generated"
    /\ eng.auth # eng.peer
    /\ eng.user = Text_User
    /\ eng.out.exc = "none"
    /\ eng.out.val

\* C8: an accepted response with any one bit flipped is rejected by
\* verify_nt_response called with the same other arguments.
C8_TamperRejected ==
    (eng.op = "verify_nt_response" /\ eng.origin = "tampered")
        => (eng.out.exc = "none" /\ ~eng.out.val)

\* C8 witness: the last bit of the last byte of an accepted response was flipped
C8_Witness ==
    /\ eng.op = "verify_nt_response"
    /\ eng.origin = "tampered"
    /\ eng.received =
         FlipBit(generate_nt_response(eng.auth, eng.peer, eng.user, Text_Secret123).val, 184)
    /\ eng.out.exc = "none"
    /\ ~eng.out.val

EngArgsValid ==
    /\ Len(eng.auth) = 16
    /\ Len(eng.peer) = 16
    /\ IsAscii(eng.user)
    /\ Len(eng.stored) = 16

\* C9: verify_nt_response returns False without raising when the response
\* is not 24 bytes long, whatever the other arguments, and when it is a wrong
\* 24-byte response to arguments of the right sizes.
C9_VerifyFailsClosed ==
    eng.op = "verify_nt_response" =>
        /\ Len(eng.received) # 24 => (eng.out.exc = "none" /\ ~eng.out.val)
        /\ (Len(eng.received) = 24 /\ EngArgsValid) => eng.out.exc = "none"
        /\ (Len(eng.received) = 24 /\ EngArgsValid /\ eng.origin # "generated") => ~eng.out.val

\* C9 witness: a short response met challenges and a digest of wrong lengths
C9_Witness ==
    /\ eng.op = "verify_nt_response"
    /\ Len(eng.received) = 23
    /\ Len(eng.stored) = 15
    /\ Len(eng.auth) = 17
    /\ eng.out.exc = "none"
    /\ ~eng.out.val

\* C10: challenge_hash, challenge_response and make_des_key_from_7_bytes
\* called with a buffer of the wrong size raise ValueError before any
\* hashing, key expansion or encryption.
C10_LengthGuards ==
    /\ (eng.op = "challenge_hash" /\ (Len(eng.peer) # 16 \/ Len(eng.auth) # 16))
       => eng.out = Raise("ValueError", <<>>)
    /\ (eng.op = "challenge_response" /\ (Len(eng.challenge8) # 8 \/ Len(eng.nt_hash) # 16))
       => eng.out = Raise("ValueError", <<>>)
    /\ (eng.op = "make_des_key_from_7_bytes" /\ Len(eng.seven) # 7)
       => eng.out = Raise("ValueError", <<>>)

\* C10 witness: challenge_response was called with a digest one byte short
C10_Witness ==
    /\ eng.op = "challenge_response"
    /\ Len(eng.challenge8) = 8
    /\ Len(eng.nt_hash) = 15
    /\ eng.out.exc = "ValueError"

\* bit n of the seven bytes read as one 56-bit big-endian number, n counted
\* from the most significant bit (0) to the least significant one (55)
InputBit(seven, n) == BitAt(seven[(n \div 8) + 1], 7 - (n % 8))

\* the i-th group of seven consecutive bits, most significant group first
SevenBitGroup(seven, i) ==
    InputBit(seven, 7 * i) * 64 + InputBit(seven, 7 * i + 1) * 32
    + InputBit(seven, 7 * i + 2) * 16 + InputBit(seven, 7 * i + 3) * 8
    + InputBit(seven, 7 * i + 4) * 4 + InputBit(seven, 7 * i + 5) * 2
    + InputBit(seven, 7 * i + 6)

BitCount(b) ==
    BitAt(b, 0) + BitAt(b, 1) + BitAt(b, 2) + BitAt(b, 3)
    + BitAt(b, 4) + BitAt(b, 5) + BitAt(b, 6) + BitAt(b, 7)

\* C11: for a 7-byte input make_des_key_from_7_bytes returns 8 bytes, each
\* with an odd number of set bits, the upper seven bits of byte i being the
\* i-th group of seven bits of the input read as a 56-bit big-endian number.
C11_KeyExpansionParityAndGroups ==
    (eng.op = "make_des_key_from_7_bytes" /\ Len(eng.seven) = 7) =>
        /\ eng.out.exc = "none"
        /\ Len(eng.out.val) = 8
        /\ \A i \in 0..7 :
              /\ eng.out.val[i + 1] \in 0..255
              /\ BitCount(eng.out.val[i + 1]) % 2 = 1
              /\ eng.out.val[i + 1] \div 2 = SevenBitGroup(eng.seven, i)

\* C11 witness: the key 01 23 45 67 89 AB CD was expanded to 01 91 D0 AD 79 4C AE 9B
C11_Witness ==
    /\ eng.op = "make_des_key_from_7_bytes"
    /\ eng.seven = <<1, 35, 69, 103, 137, 171, 205>>
    /\ eng.out.exc = "none"
    /\ eng.out.val = <<1, 145, 208, 173, 121, 76, 174, 155>>

\* encrypt(challenge8, expand(chunk)) for a chunk of seven bytes
EncryptedUnder(challenge8, chunk) ==
    DES_encrypt_block(challenge8, make_des_key_from_7_bytes(chunk).val)

\* C18: for an 8-byte challenge and a 16-byte digest challenge_response
\* returns 24 bytes: the challenge encrypted under the expansion of digest
\* bytes 0..6, then of bytes 7..13, then of bytes 14, 15 and five zero
\* bytes, each block from the challenge itself; the outcome is a function of
\* the two arguments.
C18_ResponseTransformStructure ==
    (eng.op = "challenge_response" /\ Len(eng.challenge8) = 8 /\ Len(eng.nt_hash) = 16) =>
        LET h == eng.nt_hash
            chunk0 == <<h[1], h[2], h[3], h[4], h[5], h[6], h[7]>>
            chunk1 == <<h[8], h[9], h[10], h[11], h[12], h[13], h[14]>>
            chunk2 == <<h[15], h[16], 0, 0, 0, 0, 0>>
        IN  /\ eng.out.exc = "none"
            /\ Len(eng.out.val) = 24
            /\ eng.out.val = EncryptedUnder(eng.challenge8, chunk0)
                                \o EncryptedUnder(eng.challenge8, chunk1)
                                \o EncryptedUnder(eng.challenge8, chunk2)
            /\ eng.out = challenge_response(eng.challenge8, eng.nt_hash)

\* C18 witness: a password's digest gave three different blocks of one challenge
C18_Witness ==
    /\ eng.op = "challenge_response"
    /\ eng.challenge8 = Counting(8)
    /\ eng.nt_hash = nt_password_hash(Text_Secret123)
    /\ eng.out.exc = "none"
    /\ Len(eng.out.val) = 24
    /\ Slice(eng.out.val, 0, 8) # Slice(eng.out.val, 8, 16)
    /\ Slice(eng.out.val, 8, 16) # Slice(eng.out.val, 16, 24)

(***************************************************************************)
(* Claims about the session manager and the handlers, under Spec           *)
(***************************************************************************)

\* thread t's auth_challenge request calls create_session in this step
CreatesSession(t) == thr[t].pc = "challenge_create" /\ thr'[t].pc = "challenge_get"

\* C12: the identifier create_session returns is not live when it is
\* returned: the new session is added under it with the requested identity,
\* and every session live before is still live with the same identity and
\* challenge; live identifiers are among those issued.
C12_OpenReturnsFreshId ==
    [][ /\ DOMAIN sessions' \subseteq 1..nIssued'
        /\ \A t \in Threads :
              CreatesSession(t) =>
                /\ thr'[t].sid \notin DOMAIN sessions
                /\ thr'[t].sid \in DOMAIN sessions'
                /\ sessions'[thr'[t].sid].username = thr[t].username
                /\ \A k \in DOMAIN sessions :
                      k \in DOMAIN sessions' /\ sessions'[k] = sessions[k] ]_vars

\* C12 witness: a second session was just created beside a live one that
\* has another identity and another challenge
C12_Witness ==
    \E t \in Threads :
        /\ thr[t].pc = "challenge_get"
        /\ thr[t].sid = 2
        /\ DOMAIN sessions = {1, 2}
        /\ sessions[1].username # sessions[2].username
        /\ sessions[1].auth_challenge # sessions[2].auth_challenge

\* thread t's auth_response request makes its second lookup, get_auth_challenge,
\* in this step; its first one, get_username, found the session
SecondLookup(t) == thr[t].pc = "response_get_challenge" /\ thr'[t] # thr[t]

\* thread t's auth_response request calls delete_session in this step
Consumes(t) == thr[t].pc = "response_delete" /\ thr'[t] # thr[t]

\* C13: the second lookup of an auth_response request either finds the
\* session, whose identity is the one the first lookup returned and whose
\* challenge it returns, or, the session having been deleted in between,
\* ends the request with "Invalid session_id"; a delete_session, of a live
\* identifier or of one another request has already deleted, raises
\* nothing and leaves the map without that identifier and otherwise as it was.
C13_PeekRacingConsume ==
    [][ \A t \in Threads :
          /\ SecondLookup(t) =>
                IF Live(thr[t].sid)
                THEN /\ thr'[t].pc = "response_check"
                     /\ thr'[t].sess_username = sessions[thr[t].sid].username
                     /\ thr'[t].auth_challenge = sessions[thr[t].sid].auth_challenge
                ELSE /\ thr'[t].pc = "done"
                     /\ thr'[t].result = HTTPException(400, "Invalid session_id")
          /\ Consumes(t) =>
                /\ thr'[t].pc = "done"
                /\ thr'[t].result.status = 200
                /\ DOMAIN sessions' = DOMAIN sessions \ {thr[t].sid}
                /\ \A k \in DOMAIN sessions' : sessions'[k] = sessions[k] ]_vars

\* C13 witness: between the two lookups of one request another request
\* deleted the session, and the first one was answered "Invalid session_id"
\* while it held an identity
C13_Witness ==
    \E t1, t2 \in Threads :
        /\ t1 # t2
        /\ thr[t1].pc = "response_get_challenge"
        /\ thr[t1].sess_username = Text_alice
        /\ Consumed(thr[t1].sid)
        /\ Answered(t2)
        /\ thr[t2].sid = thr[t1].sid
        /\ thr[t2].result.status = 200

\* both requests that verified the same session have deleted it, the other
\* session is still there
C13_DoubleConsumeReached ==
    /\ \A t \in Threads : Answered(t) /\ thr[t].result.status = 200 /\ thr[t].sid = 1
    /\ DOMAIN sessions = {2}

\* thread t takes a step of an auth_challenge or auth_response request
AuthStep(t) ==
    /\ thr'[t] # thr[t]
    /\ thr'[t].handler \in {"auth_challenge", "auth_response"}

\* C16: no step of an auth_challenge or auth_response request, whether the
\* request succeeds, is rejected or is aborted, changes the users table.
C16_AuthLeavesCredentialStore ==
    [][ (\E t \in Threads : AuthStep(t)) => users' = users ]_vars

\* C16 witness: with both users registered one exchange has succeeded and
\* another request was rejected, the table holding what registration stored
C16_Witness ==
    /\ DOMAIN users = SrvUsernames
    /\ \A u \in SrvUsernames : users[u] = nt_password_hash(Text_Secret123)
    /\ \E t1, t2 \in Threads :
          /\ Answered(t1) /\ thr[t1].result = Ok200(TRUE)
          /\ Answered(t2) /\ thr[t2].result.status = 400

\* what the handler does from line 183 on with the locals of thread t,
\* for a request of identity username and fields peer_text, response_text
ChecksOf(t, username, peer_text, response_text) ==
    ResponseChecks(thr[t].sess_username, thr[t].auth_challenge, users, username,
                   B64Decoded[peer_text], B64Decoded[response_text])

\* every request that can reach line 183 with the locals of thread t: if
\* verify_nt_response is called for it, its identity is the session's and
\* registered, and the call's arguments are the challenge read from the
\* session, the decoded fields and the digest stored for that identity
VerifiedOnlyAfterIdentityCheck(t) ==
    \A username \in SrvUsernames, peer_text \in SrvPeerTexts, response_text \in SrvResponseTexts :
        LET c == ChecksOf(t, username, peer_text, response_text)
        IN  c.verified =>
              /\ username = thr[t].sess_username
              /\ username \in DOMAIN users
              /\ c.out = Verified[<<thr[t].auth_challenge, B64Decoded[peer_text].val, username,
                                    users[username], B64Decoded[response_text].val>>]

\* the identity and the challenge thread t holds are those of its session
HoldsOwnSession(t) ==
    Live(thr[t].sid) =>
        /\ sessions[thr[t].sid].username = thr[t].sess_username
        /\ sessions[thr[t].sid].auth_challenge = thr[t].auth_challenge

\* C17: an auth_response request gets past the checks only with the
\* identity and challenge its lookups read from the session, calls
\* verify_nt_response only when the identity presented equals the session's,
\* with the session's challenge and the digest stored for that identity, and
\* answers success only with what that call returned.
C17_CompleteOrdering ==
    /\ [](\A t \in Threads :
            /\ thr[t].pc \in {"response_check", "response_delete"} => HoldsOwnSession(t)
            /\ thr[t].pc = "response_check" => VerifiedOnlyAfterIdentityCheck(t)
            /\ thr[t].pc = "response_delete" => thr[t].username = thr[t].sess_username
            /\ (Answered(t) /\ thr[t].result.success) => thr[t].result = Ok200(TRUE))
    /\ [][ \A t \in Threads :
             /\ (thr'[t].pc = "response_check" /\ thr[t].pc # "response_check")
                  => (thr[t].pc = "response_get_challenge" /\ Live(thr[t].sid))
             /\ (thr'[t].pc = "response_delete" /\ thr[t].pc # "response_delete")
                  => /\ thr[t].pc = "response_check"
                     /\ \E peer_text \in SrvPeerTexts, response_text \in SrvResponseTexts :
                          LET c == ChecksOf(t, thr'[t].username, peer_text, response_text)
                          IN  c.verified /\ c.out.exc = "none" /\ thr'[t].ok = c.out.val
             /\ (Answered(t)' /\ thr'[t].result.status = 200 /\ thr'[t] # thr[t])
                  => /\ thr[t].pc = "response_delete"
                     /\ thr'[t].result.success = thr[t].ok ]_vars

\* C17 witness: after both lookups and the identity check verify_nt_response
\* returned true for the session's challenge; the session is still live
C17_Witness ==
    \E t \in Threads :
        /\ thr[t].pc = "response_delete"
        /\ thr[t].ok
        /\ thr[t].username = Text_alice
        /\ Live(thr[t].sid)
        /\ sessions[thr[t].sid] =
             [username |-> Text_alice, auth_challenge |-> thr[t].auth_challenge]

\* C19: whatever step a request takes (creating a session, looking one up,
\* rejecting, verifying, deleting), a live session stays live with the same
\* identity and challenge unless the step is a delete_session of its own
\* identifier.
C19_SessionIsolation ==
    [][ \A k \in DOMAIN sessions :
          \/ k \in DOMAIN sessions' /\ sessions'[k] = sessions[k]
          \/ \E t \in Threads : Consumes(t) /\ thr[t].sid = k ]_vars

\* C19 witness: session 2 was created, verified and deleted while session 1,
\* opened before it, is live with the identity it was opened for
C19_Witness ==
    \E t \in Threads :
        /\ Answered(t)
        /\ thr[t].result.status = 200
        /\ thr[t].sid = 2
        /\ DOMAIN sessions = {1}
        /\ sessions[1].username = Text_alice

\* thread t's auth_challenge request looks the user up in this step
LooksUserUp(t) == thr[t].pc = "idle" /\ thr'[t].handler = "auth_challenge"

\* C20: an auth_challenge request goes on to create_session only for an
\* identity in the users table, and is otherwise answered 404 "User not
\* found" with the session map as it was; the session it creates is bound to
\* that identity, which is in the table at that moment, and every session
\* in the map belongs to a registered identity.
C20_ChallengeOnlyForRegistered ==
    /\ [](\A k \in DOMAIN sessions : sessions[k].username \in DOMAIN users)
    /\ [][ \A t \in Threads :
             /\ LooksUserUp(t) =>
                   /\ sessions' = sessions
                   /\ IF thr'[t].pc = "challenge_create"
                      THEN thr'[t].username \in DOMAIN users
                      ELSE /\ thr'[t].pc = "done"
                           /\ thr'[t].result = HTTPException(404, "User not found")
             /\ CreatesSession(t) =>
                   /\ thr[t].username \in DOMAIN users
                   /\ sessions'[thr'[t].sid].username = thr[t].username ]_vars

\* C20 witness: with one user registered and holding a session, a challenge
\* asked for the other identity was refused, no session added
C20_Witness ==
    \E t \in Threads :
        /\ thr[t].pc = "done"
        /\ thr[t].handler = "auth_challenge"
        /\ thr[t].result = HTTPException(404, "User not found")
        /\ DOMAIN users = {Text_alice}
        /\ DOMAIN sessions = {1}
        /\ sessions[1].username = Text_alice

(***************************************************************************)
(* Claims about the session manager's methods, under ManagerSpec           *)
(***************************************************************************)

\* C14: delete_session raises nothing, whether the identifier is live, was
\* deleted before or was never issued; afterwards the identifier is absent
\* and every other entry is as before, so that deleting an absent identifier
\* leaves the map as it was.
C14_ConsumeIdempotentTotal ==
    eng.op = "delete_session" =>
        /\ eng.out.exc = "none"
        /\ DOMAIN sessions = DOMAIN eng.before \ {eng.sid}
        /\ \A k \in DOMAIN sessions : sessions[k] = eng.before[k]
        /\ eng.sid \notin DOMAIN eng.before => sessions = eng.before

\* C14 witness: session 1, issued and deleted before, was deleted again
\* beside the live session 2
C14_Witness ==
    /\ eng.op = "delete_session"
    /\ eng.sid = 1
    /\ nIssued = 2
    /\ DOMAIN eng.before = {2}
    /\ sessions = eng.before
    /\ eng.out.exc = "none"

\* delete_session was called with an identifier never issued
C14_NeverOpenedReached ==
    /\ eng.op = "delete_session"
    /\ eng.sid > nIssued
    /\ DOMAIN sessions = {1}

\* C15: get_session, get_username and get_auth_challenge leave the session
\* map as it was; for a live identifier they return the session, its
\* identity or its challenge, for any other they raise KeyError.
C15_PeekReadOnly ==
    eng.op \in {"get_session", "get_username", "get_auth_challenge"} =>
        /\ sessions = eng.before
        /\ IF eng.sid \in DOMAIN eng.before
           THEN /\ eng.out.exc = "none"
                /\ eng.out.val =
                     CASE eng.op = "get_session" -> sessions[eng.sid]
                       [] eng.op = "get_username" -> sessions[eng.sid].username
                       [] eng.op = "get_auth_challenge" -> sessions[eng.sid].auth_challenge
           ELSE eng.out.exc = "KeyError"

\* C15 witness: get_session returned one of two live sessions, both still there
C15_Witness ==
    /\ eng.op = "get_session"
    /\ eng.sid = 1
    /\ DOMAIN sessions = {1, 2}
    /\ eng.out.exc = "none"
    /\ eng.out.val = sessions[1]
    /\ sessions[1].username = Text_alice

\* a lookup of a deleted identifier raised KeyError
C15_FailedPeekReached ==
    /\ eng.op = "get_username"
    /\ eng.sid = 1
    /\ DOMAIN sessions = {2}
    /\ eng.out.exc = "KeyError"

=============================================================================
